---- MODULE Spec2Model ----
(***************************************************************************)
(* Model of sangreal_db.core.database.DataBase: the attribute facade that  *)
(* resolves table slots lazily (__getattribute__, _reflect_table,          *)
(* __getattr__), whole-schema reflect(), re-binding through __init__, the   *)
(* dialect dependent bulk insert(), the session operations update, merge   *)
(* and delete, and two threads reading slots of one facade.                *)
(***************************************************************************)
EXTENDS Integers, Sequences, FiniteSets, TLC

VARIABLES
    inst,       \* the instance __dict__ of the DataBase object: attribute name -> value
    catalog,    \* the list object returned by _get_tables at bind time
    metadata,   \* self._metadata.tables: table name -> "absent" | "loading" | "pk" | "nopk"
    db,         \* the live database: table name -> "absent" | "pk" | "nopk"
    dialect,    \* self._bind.dialect.name
    nextId,     \* number of mapped classes handed out so far (object identity)
    okCount,    \* per table: successful returns of _reflect_table since the last bind
    ddl,        \* number of external schema changes done so far
    binds,      \* number of re-binds (inject, refresh) done so far
    reflected,  \* reflect() has returned since the last bind
    threads,    \* per thread: its position inside a concurrent __getattribute__ call
    last        \* the observable outcome of the last facade call

vars == <<inst, catalog, metadata, db, dialect, nextId, okCount, ddl, binds, reflected,
          threads, last>>

----------------------------------------------------------------------------
(* Bounds of the model *)

\* external DROP/CREATE TABLE statements in one behaviour
MaxDDL == 1
\* re-binds (inject, refresh) in one behaviour
MaxBinds == 1
\* mapped classes created in one behaviour
MaxId == 2
\* nested attribute reads after which Python raises RecursionError
RecursionLimit == 2

----------------------------------------------------------------------------
(* Names and the str.lower / str.upper conversions *)

\* each row: the lower-case, a mixed-case and the upper-case spelling of a name
Spellings ==
    << <<"ab", "Ab", "AB">>,
       <<"tables", "Tables", "TABLES">> >>

SlotNames == { Spellings[i][j] : i \in 1..Len(Spellings), j \in 1..3 }

\* a name that is no table of the database and no member of the facade
ProbeNames == {"zz"}

AttrNames == SlotNames \cup ProbeNames

Row(name) == CHOOSE i \in 1..Len(Spellings) : \E j \in 1..3 : Spellings[i][j] = name

Lower(name) == Spellings[Row(name)][1]

Upper(name) == Spellings[Row(name)][3]

\* the names a table of the database can have
DbNames == {"ab", "Ab", "AB", "tables", "Tables"}

Dialects == {"mysql", "sqlite", "oracle", "mssql", "postgresql"}

----------------------------------------------------------------------------
(* Attribute values *)

Absent == [kind |-> "absent", tbl |-> "", id |-> 0, aliased |-> FALSE]

\* the placeholder string 'None' stored by __init__
Placeholder == [kind |-> "none", tbl |-> "", id |-> 0, aliased |-> FALSE]

\* the catalog list held by the attribute `tables`
ListValue == [kind |-> "list", tbl |-> "", id |-> 0, aliased |-> FALSE]

\* a mapped class; aliased: the upper/lower column accessors were added
Handle(t, i, a) == [kind |-> "handle", tbl |-> t, id |-> i, aliased |-> a]

----------------------------------------------------------------------------
(* Lazy resolution: __getattribute__, __getattr__, _reflect_table *)

\* the part of the state one facade call reads and writes, and the names it
\* passed to _reflect_table
Frame(i, m, n, o) == [inst |-> i, metadata |-> m, nextId |-> n, ok |-> o, calls |-> << >>]

\* the errors a facade call ends with: the Python class and the start of the message
ErrMissingPrimaryKey == "ValueError: There must be a primary key in, or is not the right table name"

ErrUnknownTable == "AttributeError: is not the right table name"

ErrNotReflectable == "InvalidRequestError"

ErrRecursion == "RecursionError"

ErrEmptyFrame == "ValueError: The input DataFrame is empty"

ErrNotList == "ValueError: must be list of dicts type"

ErrIgnoreUnsupported == "ValueError: You can set IGNORE_DUP_KEY = ON"

ErrUnboundLocal == "UnboundLocalError: ignore_str"

Raise(e, s) == [err |-> e, val |-> Absent, s |-> s]

Return(v, s) == [err |-> "ok", val |-> v, s |-> s]

\* MetaData.reflect(only=[tn]) loads a table that is not yet in the MetaData
\* and keeps the descriptor of one that is
LoadOnly(md, tn) == IF md[tn] = "absent" THEN [md EXCEPT ![tn] = db[tn]] ELSE md

RECURSIVE GetAttribute(_, _, _)
RECURSIVE ReflectTable(_, _, _)

\* _reflect_table(tn), called at nesting depth d
ReflectTable(s, tn, d) ==
    LET s1 == [s EXCEPT !.calls = Append(@, tn)]
    IN  IF db[tn] = "absent"
        THEN Raise(ErrNotReflectable, s1)
        ELSE LET md == LoadOnly(s.metadata, tn)
                 s2 == [s1 EXCEPT !.metadata = md]
             IN  IF md[tn] = "pk"
                 THEN Return(Handle(tn, s.nextId + 1, TRUE),
                             [s2 EXCEPT !.nextId = @ + 1, !.ok[tn] = @ + 1])
                 ELSE \* KeyError: the message of the ValueError reads self.tables
                      LET r == GetAttribute(s2, "tables", d + 1)
                      IN  IF r.err = "ok" THEN Raise(ErrMissingPrimaryKey, r.s)
                                          ELSE Raise(r.err, r.s)

\* __getattr__(name): the message of the AttributeError reads self.tables
GetAttr(s, name, d) ==
    LET r == GetAttribute(s, "tables", d + 1)
    IN  IF r.err = "ok" THEN Raise(ErrUnknownTable, r.s) ELSE Raise(r.err, r.s)

\* setattr(self, table_name, <the class _reflect_table returned>)
StoreResolved(i, name, v) == [i EXCEPT ![name] = v]

\* the try/except chain: the requested name, then lower(), then upper()
Attempt(s, name, d) ==
    LET r1 == ReflectTable(s, name, d)
        r2 == ReflectTable(r1.s, Lower(name), d)
        r3 == ReflectTable(r2.s, Upper(name), d)
    IN  IF r1.err # ErrNotReflectable THEN r1
        ELSE IF r2.err # ErrNotReflectable THEN r2
        ELSE r3

\* lines 48-58 for a slot holding the placeholder: the chain, then the setattr
\* of the attempt that returned, then the read of line 58
Resolve(s, name, d) ==
    LET r == Attempt(s, name, d)
    IN  IF r.err = "ok"
        THEN Return(r.val, [r.s EXCEPT !.inst = StoreResolved(@, name, r.val)])
        ELSE r

\* GetAttribute without the test of line 48 for a slot that holds a class:
\* the slot is resolved again on every read
GetAttribute_AlwaysReflect(s, name, d) ==
    IF d > RecursionLimit
    THEN Raise(ErrRecursion, s)
    ELSE LET v == s.inst[name]
         IN  CASE v.kind = "absent" -> GetAttr(s, name, d)
               [] v.kind = "list"   -> Return(v, s)
               [] OTHER             -> Resolve(s, name, d)

\* __getattribute__(name), called at nesting depth d
GetAttribute(s, name, d) ==
    IF d > RecursionLimit
    THEN Raise(ErrRecursion, s)
    ELSE LET v == s.inst[name]
         IN  CASE v.kind = "absent" -> GetAttr(s, name, d)
               [] v.kind = "none"   -> Resolve(s, name, d)
               [] OTHER             -> Return(v, s)

----------------------------------------------------------------------------
(* Threads reading attributes of one shared facade *)

Threads == {1, 2}

\* a thread outside __getattribute__
Idle == [pc |-> "idle", name |-> "", try |-> 0, val |-> Absent, err |-> "ok", ret |-> Absent]

NoThreads == [t \in Threads |-> Idle]

----------------------------------------------------------------------------
(* The argument t_obj of update, merge and delete *)

\* instances of mapped classes
Entities == {"e1", "e2"}

\* one instance: isinstance(t_obj, Iterable) is false
One(e) == [iterable |-> FALSE, items |-> << e >>]

\* a list of instances
Many(q) == [iterable |-> TRUE, items |-> q]

NoArg == [iterable |-> FALSE, items |-> << >>]

SessionArgs ==
    { One(e) : e \in Entities } \cup { Many(q) : q \in { << >>, <<"e1">>, <<"e1", "e2">> } }

----------------------------------------------------------------------------
(* The outcome of a facade call *)

NoLast ==
    [op |-> "bind", name |-> "", err |-> "ok", ret |-> Absent, calls |-> << >>,
     stmts |-> << >>, result |-> "", lookup |-> FALSE, obj |-> "", ignore |-> FALSE,
     index |-> "", table |-> Absent, ops |-> << >>, arg |-> NoArg, at |-> 0]

----------------------------------------------------------------------------
(* Binding: __init__, inject, refresh *)

\* _get_tables: the table names the inspector reports now
GetTables == { t \in AttrNames : db[t] # "absent" }

Variants(ts) == ts \cup { Lower(t) : t \in ts } \cup { Upper(t) : t \in ts }

\* InitSlots without the setattr under table.upper()
InitSlots_NoUpper(i, ts) ==
    [n \in AttrNames |->
        IF n \in ts \cup { Lower(t) : t \in ts } THEN Placeholder
        ELSE IF n = "tables" THEN ListValue
        ELSE i[n]]

\* the instance __dict__ after __init__ ran over the attributes i
InitSlots(i, ts) ==
    [n \in AttrNames |->
        IF n \in Variants(ts) THEN Placeholder
        ELSE IF n = "tables" THEN ListValue
        ELSE i[n]]

NoAttrs == [n \in AttrNames |-> Absent]

NoMetadata == [n \in AttrNames |-> "absent"]

NoCount == [n \in AttrNames |-> 0]

\* a database holding the tables pks (with a primary key) and nopks (without)
Database(pks, nopks) ==
    [n \in AttrNames |-> IF n \in pks THEN "pk" ELSE IF n \in nopks THEN "nopk" ELSE "absent"]

\* the databases a DataBase object is bound to when the model starts
InitialDbs ==
    { Database({}, {}),
      Database({"ab"}, {}), Database({"Ab"}, {}), Database({"AB"}, {}),
      Database({}, {"ab"}), Database({}, {"Ab"}),
      Database({"tables"}, {}), Database({}, {"tables"}), Database({"Tables"}, {}),
      Database({"ab", "AB"}, {}),
      Database({"Tables"}, {"ab"}) }

\* the state after DataBase(bind, schema) with a valid bind. The operations of
\* Spec never read the dialect, so one dialect stands for all of them here;
\* SpecInsert binds every dialect.
Init ==
    /\ db \in InitialDbs
    /\ dialect = "sqlite"
    /\ catalog = GetTables
    /\ inst = InitSlots(NoAttrs, GetTables)
    /\ metadata = NoMetadata
    /\ nextId = 0
    /\ okCount = NoCount
    /\ ddl = 0
    /\ binds = 0
    /\ reflected = FALSE
    /\ threads = NoThreads
    /\ last = NoLast

\* inject(bind) and refresh(): __init__ runs again on the same object
Bind(d) ==
    /\ binds < MaxBinds
    /\ binds' = binds + 1
    /\ dialect' = d
    /\ catalog' = GetTables
    /\ inst' = InitSlots(inst, GetTables)
    /\ metadata' = NoMetadata
    /\ okCount' = NoCount
    /\ reflected' = FALSE
    /\ last' = NoLast
    /\ UNCHANGED <<db, nextId, ddl, threads>>

----------------------------------------------------------------------------
(* Reading an attribute of the facade *)

Read(name) ==
    LET r == GetAttribute(Frame(inst, metadata, nextId, okCount), name, 0)
    IN  /\ r.s.nextId <= MaxId
        /\ inst' = r.s.inst
        /\ metadata' = r.s.metadata
        /\ nextId' = r.s.nextId
        /\ okCount' = r.s.ok
        /\ last' = [NoLast EXCEPT !.op = "read", !.name = name, !.err = r.err,
                                  !.ret = r.val, !.calls = r.s.calls, !.at = ddl]
        /\ UNCHANGED <<catalog, db, dialect, ddl, binds, reflected, threads>>

----------------------------------------------------------------------------
(* reflect(): the whole schema at once *)

\* MetaData.reflect() loads every table of the database that is not yet in
\* the MetaData
LoadAll(md) == [n \in AttrNames |-> IF md[n] = "absent" THEN db[n] ELSE md[n]]

\* the tables automap maps to a class: those with a primary key
Mapped(md) == { n \in AttrNames : md[n] = "pk" }

\* the orders in which Base.classes.items() can yield the classes
Orders(ts) ==
    { q \in [1..Cardinality(ts) -> ts] : \A a, b \in 1..Cardinality(ts) : q[a] = q[b] => a = b }

RECURSIVE SetClasses_NoUpper(_, _, _, _)
\* SetClasses without the setattr under k.upper()
SetClasses_NoUpper(i, ord, j, base) ==
    IF j > Len(ord) THEN i
    ELSE LET k == ord[j]
             v == Handle(k, base + j, FALSE)
         IN  SetClasses_NoUpper([i EXCEPT ![k] = v, ![Lower(k)] = v], ord, j + 1, base)

RECURSIVE SetClasses(_, _, _, _)
\* the loop of reflect(): setattr under k, k.lower() and k.upper()
SetClasses(i, ord, j, base) ==
    IF j > Len(ord) THEN i
    ELSE LET k == ord[j]
             v == Handle(k, base + j, FALSE)
         IN  SetClasses([i EXCEPT ![k] = v, ![Lower(k)] = v, ![Upper(k)] = v],
                        ord, j + 1, base)

Reflect ==
    LET md == LoadAll(metadata)
    IN  /\ nextId + Cardinality(Mapped(md)) <= MaxId
        /\ \E ord \in Orders(Mapped(md)) : inst' = SetClasses(inst, ord, 1, nextId)
        /\ metadata' = md
        /\ nextId' = nextId + Cardinality(Mapped(md))
        /\ reflected' = TRUE
        /\ last' = [NoLast EXCEPT !.op = "reflect"]
        /\ UNCHANGED <<catalog, db, dialect, okCount, ddl, binds, threads>>

----------------------------------------------------------------------------
(* The database changes behind the binding *)

DropTable(t) ==
    /\ ddl < MaxDDL
    /\ ddl' = ddl + 1
    /\ db[t] # "absent"
    /\ db' = [db EXCEPT ![t] = "absent"]
    /\ UNCHANGED <<inst, catalog, metadata, dialect, nextId, okCount, binds, reflected,
                   threads, last>>

CreateTable(t, k) ==
    /\ ddl < MaxDDL
    /\ ddl' = ddl + 1
    /\ db[t] = "absent"
    /\ db' = [db EXCEPT ![t] = k]
    /\ UNCHANGED <<inst, catalog, metadata, dialect, nextId, okCount, binds, reflected,
                   threads, last>>

----------------------------------------------------------------------------
(* insert(table, insert_obj, ignore, index) *)

\* Python's None given as the index argument
NoIndex == "None"

\* the values of insert_obj: DataFrames, lists, and objects that are neither
DataFrames == {"df_rows", "df_empty"}

Lists == {"list_dicts", "list_scalars"}

InsertObjs == DataFrames \cup Lists \cup {"tuple_dicts", "str"}

\* table.__table__.indexes of the tables of the database, in iteration order
TableIndexes(t) ==
    CASE t = "ab" -> << [name |-> "ix_ab_1", unique |-> FALSE],
                        [name |-> "uq_ab_2", unique |-> TRUE],
                        [name |-> "uq_ab_3", unique |-> TRUE] >>
      [] t = "Ab" -> << [name |-> "ix_Ab_1", unique |-> FALSE] >>
      [] OTHER -> << >>

\* the names of table.__table__.constraints, in iteration order
TableConstraints(t) ==
    CASE t = "Ab" -> << "ck_Ab", "pk_Ab" >>
      [] OTHER -> << "pk_" \o t >>

\* lines 152-158: the error insert raises for insert_obj, or "ok"
Validate(obj) ==
    IF obj \in DataFrames
    THEN IF obj = "df_empty" THEN ErrEmptyFrame ELSE "ok"
    ELSE IF obj \notin Lists THEN ErrNotList ELSE "ok"

EmptyStr == [kw |-> "", tbl |-> "", index |-> ""]

Keyword(k) == [kw |-> k, tbl |-> "", index |-> ""]

Hint(t, ix) == [kw |-> "/*+ IGNORE_ROW_ON_DUPKEY_INDEX */", tbl |-> t, index |-> ix]

\* FirstUnique without the test of i.unique: the first index, unique or not
FirstUnique_AnyIndex(ixs) ==
    IF Len(ixs) = 0 THEN NoIndex ELSE ixs[1].name

\* the loop over table.__table__.indexes: the name of the first unique one
FirstUnique(ixs) ==
    LET uniq == { j \in 1..Len(ixs) : ixs[j].unique }
    IN  IF uniq = {} THEN NoIndex
        ELSE ixs[CHOOSE j \in uniq : \A k \in uniq : j <= k].name

\* lines 164-170: the index the oracle hint names
OracleIndex(t, ignore, index) ==
    IF ignore /\ index = NoIndex
    THEN IF FirstUnique(TableIndexes(t)) # NoIndex
         THEN FirstUnique(TableIndexes(t))
         ELSE TableConstraints(t)[1]
    ELSE index

\* IgnoreStr with the mssql branch only assigning ignore_str = "", not raising
IgnoreStr_MssqlSilent(dia, t, ignore, index) ==
    CASE dia = "mysql" ->
            [err |-> "ok", frag |-> IF ignore THEN Keyword("IGNORE") ELSE EmptyStr,
             lookup |-> FALSE]
      [] dia = "sqlite" ->
            [err |-> "ok", frag |-> IF ignore THEN Keyword("OR REPLACE") ELSE EmptyStr,
             lookup |-> FALSE]
      [] dia = "oracle" ->
            [err |-> "ok",
             frag |-> IF ignore THEN Hint(t, OracleIndex(t, ignore, index)) ELSE EmptyStr,
             lookup |-> ignore /\ index = NoIndex]
      [] dia = "mssql" ->
            [err |-> "ok", frag |-> EmptyStr, lookup |-> FALSE]
      [] OTHER ->
            [err |-> ErrUnboundLocal, frag |-> EmptyStr, lookup |-> FALSE]

\* IgnoreStr with the sqlite keyword of the mysql branch
IgnoreStr_SqliteIgnore(dia, t, ignore, index) ==
    CASE dia \in {"mysql", "sqlite"} ->
            [err |-> "ok", frag |-> IF ignore THEN Keyword("IGNORE") ELSE EmptyStr,
             lookup |-> FALSE]
      [] dia = "oracle" ->
            [err |-> "ok",
             frag |-> IF ignore THEN Hint(t, OracleIndex(t, ignore, index)) ELSE EmptyStr,
             lookup |-> ignore /\ index = NoIndex]
      [] dia = "mssql" ->
            [err |-> IF ignore THEN ErrIgnoreUnsupported ELSE "ok", frag |-> EmptyStr,
             lookup |-> FALSE]
      [] OTHER ->
            [err |-> ErrUnboundLocal, frag |-> EmptyStr, lookup |-> FALSE]

\* lines 159-176: ignore_str, or the error raised instead
IgnoreStr(dia, t, ignore, index) ==
    CASE dia = "mysql" ->
            [err |-> "ok", frag |-> IF ignore THEN Keyword("IGNORE") ELSE EmptyStr,
             lookup |-> FALSE]
      [] dia = "sqlite" ->
            [err |-> "ok", frag |-> IF ignore THEN Keyword("OR REPLACE") ELSE EmptyStr,
             lookup |-> FALSE]
      [] dia = "oracle" ->
            [err |-> "ok",
             frag |-> IF ignore THEN Hint(t, OracleIndex(t, ignore, index)) ELSE EmptyStr,
             lookup |-> ignore /\ index = NoIndex]
      [] dia = "mssql" ->
            [err |-> IF ignore THEN ErrIgnoreUnsupported ELSE "ok", frag |-> EmptyStr,
             lookup |-> FALSE]
      [] OTHER ->
            \* no branch assigns ignore_str: line 178 reads an unbound local
            [err |-> ErrUnboundLocal, frag |-> EmptyStr, lookup |-> FALSE]

\* table.__table__.insert().prefix_with(ignore_str).values(insert_obj)
Statement(t, frag, obj) == [tbl |-> t, prefixes |-> << frag >>, values |-> obj]

Insert(table, obj, ignore, index) ==
    LET v == Validate(obj)
        f == IgnoreStr(dialect, table.tbl, ignore, index)
        call == [NoLast EXCEPT !.op = "insert", !.table = table, !.obj = obj,
                               !.ignore = ignore, !.index = index]
    IN  /\ \E n \in AttrNames : inst[n].kind = "handle" /\ inst[n] = table
        /\ last' = IF v # "ok" THEN [call EXCEPT !.err = v]
                   ELSE IF f.err # "ok" THEN [call EXCEPT !.err = f.err, !.lookup = f.lookup]
                   ELSE [call EXCEPT !.stmts = << Statement(table.tbl, f.frag, obj) >>,
                                     !.result = "result of session.execute",
                                     !.lookup = f.lookup]
        /\ UNCHANGED <<inst, catalog, metadata, db, dialect, nextId, okCount, ddl, binds,
                       reflected, threads>>

----------------------------------------------------------------------------

Next ==
    \/ \E n \in AttrNames : Read(n)
    \/ Reflect
    \/ Bind(dialect)
    \/ \E t \in DbNames : DropTable(t)
    \/ \E t \in DbNames, k \in {"pk", "nopk"} : CreateTable(t, k)

Spec == Init /\ [][Next]_vars

----------------------------------------------------------------------------
(* Bulk insert through a bound facade, for every dialect *)

InsertDbs ==
    { Database({"ab"}, {}), Database({"Ab"}, {}), Database({"AB"}, {}) }

InitInsert ==
    /\ db \in InsertDbs
    /\ dialect \in Dialects
    /\ catalog = GetTables
    /\ inst = InitSlots(NoAttrs, GetTables)
    /\ metadata = NoMetadata
    /\ nextId = 0
    /\ okCount = NoCount
    /\ ddl = 0
    /\ binds = 0
    /\ reflected = FALSE
    /\ threads = NoThreads
    /\ last = NoLast

Handles == { inst[n] : n \in { m \in AttrNames : inst[m].kind = "handle" } }

InsertIndexes == {NoIndex, "ix_given"}

NextInsert ==
    \/ \E n \in AttrNames : Read(n)
    \/ \E t \in Handles, o \in InsertObjs, g \in BOOLEAN, x \in InsertIndexes :
            Insert(t, o, g, x)

SpecInsert == InitInsert /\ [][NextInsert]_vars

----------------------------------------------------------------------------
(* Properties of lazy resolution, checked under Spec *)

\* the binding is the one made at construction, the database is as it was
\* then, and the attribute `tables` holds the catalog list (no table is
\* spelled like it)
Fresh == ddl = 0 /\ binds = 0 /\ inst["tables"] = ListValue

\* the slot name n belongs to the catalog table t and to no other table
SlotOf(n, t) ==
    /\ t \in catalog
    /\ n \in Variants({t})
    /\ \A u \in catalog : n \in Variants({u}) => u = t

\* a handle built by a lazy read (reflect() adds no column aliases)
Lazy(v) == v.kind = "handle" /\ v.aliased

\* C1: for every catalog table T (with a primary key), reads of the slots T,
\* T.lower() and T.upper() all succeed, and the slots resolved by lazy reads
\* hold the identical handle object.
C1_AliasesShareOneHandle ==
    Fresh =>
        \A t \in catalog :
            db[t] = "pk" =>
                /\ (last.op = "read" /\ SlotOf(last.name, t)) => last.err = "ok"
                /\ \A a, b \in AttrNames :
                        (SlotOf(a, t) /\ SlotOf(b, t) /\ Lazy(inst[a]) /\ Lazy(inst[b]))
                            => inst[a] = inst[b]

\* C2: between two re-binds _reflect_table returns successfully at most once
\* per table, whichever aliases are read.
C2_ReflectedOncePerTable ==
    Fresh => \A t \in AttrNames : okCount[t] <= 1

\* C8: reading a slot of a catalog table that has no primary key fails with
\* the missing-primary-key error and returns no handle.
C8_MissingPrimaryKeyReported ==
    (Fresh /\ last.op = "read")
        => \A t \in catalog :
              (db[t] = "nopk" /\ SlotOf(last.name, t))
                  => last.err = ErrMissingPrimaryKey /\ last.ret = Absent

\* C9: a read of a registered slot whose three reflection attempts all fail
\* ends with the descriptive unknown-table error, never with the reflection
\* collaborator's raw error.
C9_NoRawReflectionError ==
    (inst["tables"] = ListValue /\ last.op = "read" /\ Len(last.calls) = 3)
        => last.err # ErrNotReflectable

\* C10: on a bound DataBase a read of a name that is no slot raises the
\* unknown-table error, performs no reflection, returns no handle and creates
\* no slot for the name.
C10_UnknownNameRejected ==
    (last.op = "read" /\ last.name \in ProbeNames)
        => /\ last.err = ErrUnknownTable
           /\ last.calls = << >>
           /\ last.ret = Absent
           /\ inst[last.name] = Absent

----------------------------------------------------------------------------
(* Properties of insert, checked under SpecInsert *)

Inserted == last.op = "insert"

\* insert_obj passes the checks of lines 152-158
Accepted == last.obj \in {"df_rows", "list_dicts", "list_scalars"}

\* the call executed exactly the statement INSERT <frag> INTO table VALUES insert_obj
Executed(frag) ==
    /\ last.err = "ok"
    /\ last.stmts = << [tbl |-> last.table.tbl, prefixes |-> << frag >>, values |-> last.obj] >>
    /\ last.result = "result of session.execute"

\* C3: for a dialect other than mysql, sqlite, oracle and mssql, insert of a
\* list of mappings executes one statement with the empty fragment and
\* returns its result, for both values of ignore.
C3_OtherDialectPassesThrough ==
    (Inserted /\ dialect \notin {"mysql", "sqlite", "oracle", "mssql"}
              /\ last.obj = "list_dicts")
        => Executed(EmptyStr)

\* C4 as stated: on mssql every insert with ignore=true fails with the
\* unsupported-ignore error, whatever insert_obj is, and executes nothing.
C4_MssqlIgnoreAlwaysUnsupported ==
    (Inserted /\ dialect = "mssql" /\ last.ignore)
        => last.err = ErrIgnoreUnsupported /\ last.stmts = << >>

\* C4 amended: on mssql an insert with ignore=true never executes a
\* statement; it fails with the unsupported-ignore error when insert_obj is a
\* non-empty DataFrame or a list, and with the validation error raised before
\* it otherwise; with ignore=false an accepted insert_obj is executed with
\* the empty fragment.
C4_MssqlIgnoreRejected ==
    (Inserted /\ dialect = "mssql")
        => /\ last.ignore =>
                /\ last.stmts = << >>
                /\ Accepted => last.err = ErrIgnoreUnsupported
                /\ last.obj = "df_empty" => last.err = ErrEmptyFrame
                /\ last.obj \in {"tuple_dicts", "str"} => last.err = ErrNotList
           /\ (~last.ignore /\ Accepted) => Executed(EmptyStr)

C4_Witness ==
    /\ Inserted /\ dialect = "mssql" /\ last.ignore
    /\ last.obj = "list_dicts" /\ last.err = ErrIgnoreUnsupported

\* C5: on mysql the fragment is IGNORE when ignore=true, on sqlite it is
\* OR REPLACE, and it is empty when ignore=false; the one statement executed
\* carries the fragment as its only prefix.
C5_MysqlSqliteFragment ==
    (Inserted /\ Accepted)
        => /\ dialect = "mysql" =>
                Executed(IF last.ignore THEN [kw |-> "IGNORE", tbl |-> "", index |-> ""]
                                        ELSE [kw |-> "", tbl |-> "", index |-> ""])
           /\ dialect = "sqlite" =>
                Executed(IF last.ignore THEN [kw |-> "OR REPLACE", tbl |-> "", index |-> ""]
                                        ELSE [kw |-> "", tbl |-> "", index |-> ""])

C5_Witness ==
    /\ Inserted /\ dialect = "sqlite" /\ last.ignore /\ last.obj = "df_rows"
    /\ Len(last.stmts) = 1
    /\ last.stmts[1].prefixes = << [kw |-> "OR REPLACE", tbl |-> "", index |-> ""] >>

\* the index C6 expects the hint to name for the tables of the database
ExpectedIndex(t) ==
    CASE t = "ab" -> "uq_ab_2"          \* the non-unique ix_ab_1 is skipped
      [] t = "Ab" -> "ck_Ab"            \* no unique index: the first constraint
      [] t = "AB" -> "pk_AB"            \* no index at all: the first constraint

\* C6: on oracle with ignore=true the hint names the explicit index when one
\* is given, else the first unique index of the table, else the table's
\* first constraint; with ignore=false the fragment is empty and no index is
\* looked up.
C6_OracleHintIndex ==
    (Inserted /\ dialect = "oracle" /\ Accepted)
        => IF last.ignore
           THEN Executed([kw |-> "/*+ IGNORE_ROW_ON_DUPKEY_INDEX */",
                          tbl |-> last.table.tbl,
                          index |-> IF last.index # NoIndex THEN last.index
                                    ELSE ExpectedIndex(last.table.tbl)])
                /\ (last.lookup <=> last.index = NoIndex)
           ELSE Executed([kw |-> "", tbl |-> "", index |-> ""]) /\ ~last.lookup

C6_Witness ==
    /\ Inserted /\ dialect = "oracle" /\ last.ignore /\ last.index = NoIndex
    /\ last.table.tbl = "ab" /\ Len(last.stmts) = 1
    /\ last.stmts[1].prefixes[1].index = "uq_ab_2"

\* C7: insert with an empty DataFrame, or with an input that is neither a
\* DataFrame nor a sequence of mappings, fails with a validation error and
\* executes nothing.
C7_InvalidInputRejected ==
    (Inserted /\ last.obj \in {"df_empty", "list_scalars", "str"})
        => last.err \in {ErrEmptyFrame, ErrNotList} /\ last.stmts = << >>

----------------------------------------------------------------------------
(* A facade constructed without a bind, and bound later by inject *)

\* the state after DataBase(): __init__ returns at line 26 and sets nothing
InitUnbound ==
    /\ db \in InitialDbs
    /\ dialect = "sqlite"
    /\ catalog = {}
    /\ inst = NoAttrs
    /\ metadata = NoMetadata
    /\ nextId = 0
    /\ okCount = NoCount
    /\ ddl = 0
    /\ binds = 0
    /\ reflected = FALSE
    /\ threads = NoThreads
    /\ last = NoLast

NextUnbound ==
    \/ \E n \in AttrNames : Read(n)
    \/ Bind(dialect)

SpecUnbound == InitUnbound /\ [][NextUnbound]_vars

\* no __init__ has got past line 26 on this object
Unbound == inst = NoAttrs

\* C11: on a DataBase constructed with a null bind and not yet injected, a
\* read of any table name ends with the attribute error, never with another
\* error, and without any reflection.
C11_UnboundReadIsAttributeError ==
    (Unbound /\ last.op = "read")
        => last.err = ErrUnknownTable /\ last.calls = << >>

----------------------------------------------------------------------------
(* Lazy reads and reflect() on one binding, the database unchanged *)

NextReflect ==
    \/ \E n \in AttrNames : Read(n)
    \/ Reflect

SpecReflect == Init /\ [][NextReflect]_vars

\* the last call read a slot of some catalog table out of ts
ReadSlotOf(ts) ==
    last.op = "read" /\ \E t \in ts : last.name \in Variants({t})

\* the read returned a handle and called _reflect_table for no name
ReturnedCached ==
    last.err = "ok" /\ last.ret.kind = "handle" /\ last.calls = << >>

----------------------------------------------------------------------------
(* The column accessors of a handle *)

\* the lower-case, the declared and the upper-case spelling of a column
ColumnSpellings == <<"id", "Id", "ID">>

\* the attribute names under which the mapped class v exposes the column:
\* automap gives the declared name, lines 84-91 add the other two
Accessors(v) ==
    IF v.aliased
    THEN { ColumnSpellings[j] : j \in 1..3 }
    ELSE { ColumnSpellings[2] }

\* C13: every resolved handle held in a slot, produced by a lazy read or by
\* reflect(), exposes each column under its declared, its lower-case and its
\* upper-case name.
C13_EveryHandleHasColumnAliases ==
    \A n \in AttrNames :
        inst[n].kind = "handle"
            => Accessors(inst[n]) = { ColumnSpellings[j] : j \in 1..3 }

----------------------------------------------------------------------------
(* Properties of binding and re-binding *)

\* C14: after a re-bind (inject, refresh, the refresh of create_all) the
\* slots are exactly the variants of the new catalog, every one of them is
\* unresolved, and no slot or handle of the previous binding remains.
C14_RebindReconstructsSlots ==
    (binds > 0 /\ last.op = "bind")
        => \A n \in AttrNames \ {"tables"} :
              inst[n] = IF n \in Variants(catalog) THEN Placeholder ELSE Absent

\* construction, reads, reflect() and re-binds on an unchanged database
NextBind ==
    \/ \E n \in AttrNames : Read(n)
    \/ Reflect
    \/ Bind(dialect)

SpecBind == Init /\ [][NextBind]_vars

\* right after __init__ nothing is reflected and every variant of every
\* catalog table is a slot holding the placeholder
NothingReflectedAtBind ==
    last.op = "bind"
        => /\ metadata = NoMetadata
           /\ okCount = NoCount
           /\ \A t \in catalog : \A n \in Variants({t}) : inst[n] = Placeholder

\* a facade call that calls _reflect_table is a read, and every name it
\* passes is a variant of a slot that the read found holding the placeholder:
\* the requested one, or the slot `tables` read for the text of an error
\* message
ReflectedOnlyByRead ==
    (last' # last /\ last'.calls # << >>)
        => /\ last'.op = "read"
           /\ \A j \in 1..Len(last'.calls) :
                \/ /\ last'.name \in SlotNames
                   /\ last'.calls[j] \in Variants({last'.name})
                   /\ inst[last'.name] = Placeholder
                \/ /\ last'.calls[j] \in Variants({"tables"})
                   /\ inst["tables"] = Placeholder

----------------------------------------------------------------------------
(* update, merge and delete: what the facade asks of the session *)

ErrUnmappedInstance == "UnmappedInstanceError"

\* one call of a session method on the object it was given
SessionCall(c, target) == [call |-> c, on |-> target]

\* the session method applied to every element of q in turn
Each(c, q) == [j \in 1..Len(q) |-> SessionCall(c, One(q[j]))]

\* lines 128-131: add_all adds every element, add adds the instance
Update(a) ==
    /\ last' = [NoLast EXCEPT !.op = "update", !.arg = a,
                              !.ops = IF a.iterable THEN Each("add", a.items)
                                      ELSE << SessionCall("add", a) >>]
    /\ UNCHANGED <<inst, catalog, metadata, db, dialect, nextId, okCount, ddl, binds,
                   reflected, threads>>

\* lines 195-199: merge of every element, or of the instance
Merge(a) ==
    /\ last' = [NoLast EXCEPT !.op = "merge", !.arg = a,
                              !.ops = IF a.iterable THEN Each("merge", a.items)
                                      ELSE << SessionCall("merge", a) >>]
    /\ UNCHANGED <<inst, catalog, metadata, db, dialect, nextId, okCount, ddl, binds,
                   reflected, threads>>

\* line 182: session.delete of whatever was given; the session rejects an
\* object that is no mapped instance
Delete(a) ==
    /\ last' = [NoLast EXCEPT !.op = "delete", !.arg = a,
                              !.ops = << SessionCall("delete", a) >>,
                              !.err = IF a.iterable THEN ErrUnmappedInstance ELSE "ok"]
    /\ UNCHANGED <<inst, catalog, metadata, db, dialect, nextId, okCount, ddl, binds,
                   reflected, threads>>

NextSession ==
    \/ \E a \in SessionArgs : Update(a)
    \/ \E a \in SessionArgs : Merge(a)
    \/ \E a \in SessionArgs : Delete(a)

SpecSession == Init /\ [][NextSession]_vars

\* the session method each facade operation stands for
SessionMethod(op) ==
    CASE op = "update" -> "add"
      [] op = "merge"  -> "merge"
      [] op = "delete" -> "delete"

\* C16: update, merge and delete apply the session operation once to a single
\* instance, and to every element of an iterable, never to the iterable
\* itself.
C16_AppliedToEveryElement ==
    last.op \in {"update", "merge", "delete"}
        => /\ last.err = "ok"
           /\ last.ops = Each(SessionMethod(last.op), last.arg.items)

----------------------------------------------------------------------------
(* Two threads inside __getattribute__ on one facade. Nothing in the facade *)
(* or in the MetaData it shares takes a lock, so the steps of the two calls *)
(* interleave: the test of line 48, MetaData.reflect registering the Table  *)
(* and then loading it, automap building the class, the setattr, and the    *)
(* read of line 58.                                                         *)

ThreadDbs ==
    { Database({"ab"}, {}), Database({"Ab"}, {}), Database({"AB"}, {}),
      Database({}, {"ab"}), Database({"ab", "AB"}, {}) }

InitThreads ==
    /\ db \in ThreadDbs
    /\ dialect = "sqlite"
    /\ catalog = GetTables
    /\ inst = InitSlots(NoAttrs, GetTables)
    /\ metadata = NoMetadata
    /\ nextId = 0
    /\ okCount = NoCount
    /\ ddl = 0
    /\ binds = 0
    /\ reflected = FALSE
    /\ threads = NoThreads
    /\ last = NoLast

\* the name the k-th attempt of the try/except chain passes to _reflect_table
AttemptName(name, k) ==
    CASE k = 1 -> name
      [] k = 2 -> Lower(name)
      [] k = 3 -> Upper(name)

\* line 48: the slot is read and compared with the placeholder
TCheck(t, name) ==
    /\ threads[t].pc = "idle"
    /\ inst[name].kind # "absent"
    /\ threads' = [threads EXCEPT ![t] =
            [Idle EXCEPT !.name = name,
                         !.try = IF inst[name] = Placeholder THEN 1 ELSE 0,
                         !.pc = IF inst[name] = Placeholder THEN "reflect" ELSE "return"]]
    /\ UNCHANGED <<inst, catalog, metadata, db, dialect, nextId, okCount, ddl, binds,
                   reflected, last>>

\* line 79, first half: MetaData.reflect(only=[tn]) raises for a table the
\* database does not have, skips a Table the MetaData already holds, and
\* else registers a new Table in the MetaData before it loads its columns
TReflect(t) ==
    LET th == threads[t]
        tn == AttemptName(th.name, th.try)
    IN  /\ th.pc = "reflect"
        /\ IF db[tn] = "absent"
           THEN /\ threads' = [threads EXCEPT ![t] =
                        IF th.try < 3
                        THEN [th EXCEPT !.try = @ + 1]
                        ELSE [th EXCEPT !.pc = "done", !.err = ErrNotReflectable]]
                /\ UNCHANGED metadata
           ELSE IF metadata[tn] = "absent"
           THEN /\ metadata' = [metadata EXCEPT ![tn] = "loading"]
                /\ threads' = [threads EXCEPT ![t].pc = "load"]
           ELSE /\ threads' = [threads EXCEPT ![t].pc = "map"]
                /\ UNCHANGED metadata
        /\ UNCHANGED <<inst, catalog, db, dialect, nextId, okCount, ddl, binds, reflected,
                       last>>

\* line 79, second half: the columns and the primary key of the new Table
\* arrive from the database
TLoad(t) ==
    LET th == threads[t]
        tn == AttemptName(th.name, th.try)
    IN  /\ th.pc = "load"
        /\ metadata' = [metadata EXCEPT ![tn] = db[tn]]
        /\ threads' = [threads EXCEPT ![t].pc = "map"]
        /\ UNCHANGED <<inst, catalog, db, dialect, nextId, okCount, ddl, binds, reflected,
                       last>>

\* lines 80-95: automap maps the Tables that have a primary key now; the
\* KeyError of an unmapped one becomes the ValueError
TMap(t) ==
    LET th == threads[t]
        tn == AttemptName(th.name, th.try)
    IN  /\ th.pc = "map"
        /\ nextId < MaxId
        /\ IF metadata[tn] = "pk"
           THEN /\ threads' = [threads EXCEPT ![t].pc = "store",
                                              ![t].val = Handle(tn, nextId + 1, TRUE)]
                /\ nextId' = nextId + 1
                /\ okCount' = [okCount EXCEPT ![tn] = @ + 1]
           ELSE /\ threads' = [threads EXCEPT ![t].pc = "done",
                                              ![t].err = ErrMissingPrimaryKey]
                /\ UNCHANGED <<nextId, okCount>>
        /\ UNCHANGED <<inst, catalog, metadata, db, dialect, ddl, binds, reflected, last>>

\* lines 50, 53, 56: setattr(self, table_name, <the class>)
TStore(t) ==
    /\ threads[t].pc = "store"
    /\ inst' = StoreResolved(inst, threads[t].name, threads[t].val)
    /\ threads' = [threads EXCEPT ![t].pc = "return"]
    /\ UNCHANGED <<catalog, metadata, db, dialect, nextId, okCount, ddl, binds, reflected,
                   last>>

\* line 58: the slot is read again and its value returned
TReturn(t) ==
    /\ threads[t].pc = "return"
    /\ threads' = [threads EXCEPT ![t].pc = "done", ![t].ret = inst[threads[t].name]]
    /\ UNCHANGED <<inst, catalog, metadata, db, dialect, nextId, okCount, ddl, binds,
                   reflected, last>>

NextThreads ==
    \E t \in Threads :
        \/ \E n \in SlotNames : TCheck(t, n)
        \/ TReflect(t)
        \/ TLoad(t)
        \/ TMap(t)
        \/ TStore(t)
        \/ TReturn(t)

SpecThreads == InitThreads /\ [][NextThreads]_vars

\* the table the try/except chain reaches for the name has a primary key
Resolvable(name) ==
    \E k \in 1..3 :
        /\ db[AttemptName(name, k)] = "pk"
        /\ \A j \in 1..(k - 1) : db[AttemptName(name, j)] = "absent"

\* C17: when two threads read the same unresolved slot of a table that can
\* be resolved, in every interleaving each of the two reads returns a
\* resolved handle, never the placeholder and never an error.
C17_ConcurrentReadsBothResolve ==
    \A t \in Threads :
        (threads[t].pc = "done" /\ Resolvable(threads[t].name))
            => threads[t].err = "ok" /\ threads[t].ret.kind = "handle"

----------------------------------------------------------------------------
(* Reads that fail, and reads repeated after the database was repaired *)

\* ALTER TABLE t ADD PRIMARY KEY, issued behind the binding
AddPrimaryKey(t) ==
    /\ ddl < MaxDDL
    /\ ddl' = ddl + 1
    /\ db[t] = "nopk"
    /\ db' = [db EXCEPT ![t] = "pk"]
    /\ UNCHANGED <<inst, catalog, metadata, dialect, nextId, okCount, binds, reflected,
                   threads, last>>

NextRetry ==
    \/ \E n \in AttrNames : Read(n)
    \/ \E t \in DbNames : AddPrimaryKey(t)
    \/ \E t \in DbNames, k \in {"pk", "nopk"} : CreateTable(t, k)

SpecRetry == Init /\ [][NextRetry]_vars

\* C18: a failed read of a registered slot is not cached: the slot stays
\* unresolved, and a read of it succeeds once the table can be resolved.
\* the last call was a read of a registered slot, and the database has not
\* changed since
ReadSlotNow ==
    last.op = "read" /\ last.at = ddl /\ last.name \in Variants(catalog)

C18_FailedReadNotCached ==
    /\ (ReadSlotNow /\ last.err # "ok") => inst[last.name] = Placeholder
    /\ (ReadSlotNow /\ inst["tables"] = ListValue /\ Resolvable(last.name))
            => last.err = "ok" /\ last.ret.kind = "handle"

----------------------------------------------------------------------------
(* Every operation of the facade on one binding and its re-binds *)

FrameArgs == { One("e1"), Many(<<"e1", "e2">>) }

NextFrame ==
    \/ \E n \in AttrNames : Read(n)
    \/ \E t \in Handles, g \in BOOLEAN : Insert(t, "list_dicts", g, NoIndex)
    \/ \E a \in FrameArgs : Update(a)
    \/ \E a \in FrameArgs : Merge(a)
    \/ \E a \in FrameArgs : Delete(a)
    \/ Reflect
    \/ Bind(dialect)

SpecFrame == Init /\ [][NextFrame]_vars

\* what one step does to the slot n that holds a handle: only reflect() and
\* a re-bind change it, and a read of n returns the handle it holds without
\* calling _reflect_table
ResolvedSlotKept(n) ==
    inst[n].kind = "handle"
        => /\ inst'[n] # inst[n] => last'.op \in {"reflect", "bind"}
           /\ (last' # last /\ last'.op = "read" /\ last'.name = n)
                => /\ last'.err = "ok"
                   /\ last'.ret = inst[n]
                   /\ last'.calls = << >>

\* C19: once a slot is resolved, every later read of it returns the
\* identical handle and performs no reflection, across reads of other
\* slots, failed reads, insert, update, merge and delete; only reflect() and
\* the re-binds change what the slot holds.
C19_ResolvedSlotIsStable ==
    [][\A n \in AttrNames : ResolvedSlotKept(n)]_vars

C19_Witness ==
    /\ last.op = "read" /\ last.calls = << >> /\ Lazy(last.ret) /\ last.ret.id = 1
    /\ nextId = 2 /\ binds = 0 /\ ~reflected

----------------------------------------------------------------------------
(* The members of the facade and the slots *)

\* C20: registering the slots at bind time replaces no member of the
\* facade: for every catalog, also one with a table spelled like a member,
\* the attribute `tables` holds the catalog list after the bind.
C20_FacadeMembersKept ==
    last.op = "bind" => inst["tables"] = ListValue

====
